---- MODULE Spec2Model ----
(***************************************************************************)
(* Model of whisper_q/q_layers.py: the two quantisers (SymQuantizer,       *)
(* TwnQuantizer: forward and straight-through backward) and the three      *)
(* layer wrappers (QuantizeLinear, QuantizeEmbedding, QuantizeConv).       *)
(*                                                                         *)
(* Tensor elements are IEEE-like numbers modelled exactly: a number is a   *)
(* pair <<n, d>>; d > 0 is the rational n/d in lowest terms, <<1, 0>> is   *)
(* +inf, <<-1, 0>> is -inf and <<0, 0>> is NaN.  Rounding error of the     *)
(* floating-point format is not modelled; division by zero, inf and NaN    *)
(* are.                                                                    *)
(***************************************************************************)
EXTENDS Integers, Sequences, FiniteSets, TLC

\* ---------------------------------------------------------------- bounds
\* tensor elements and clip bounds are integers of magnitude <= MaxAbs
MaxAbs == 3
\* number of elements of a quantiser's input tensor
MaxLen == 2
\* num_bits ranges over 1..MaxBits
MaxBits == 3
\* incoming gradients are g, 2g, 3g, ... for 0 < |g| <= MaxGrad
MaxGrad == 1

\* ------------------------------------------------------ program constants
\* largest rank SymQuantizer.forward accepts when not layerwise
MaxSupportedRank == 4
\* largest rank reduced over the last axis only
MaxRowRank == 3
\* thres = 0.7 * m, as the fraction ThresNum / ThresDen
ThresNum == 7
ThresDen == 10
\* weight_bits that selects TwnQuantizer
TernaryBits == 2
\* default of the input_bits constructor argument
DefaultInputBits == 8

\* ------------------------------------------------------------- numbers
NaN == <<0, 0>>
PInf == <<1, 0>>
NInf == <<-1, 0>>

Abs(i) == IF i < 0 THEN -i ELSE i
Sign(i) == IF i < 0 THEN -1 ELSE IF i > 0 THEN 1 ELSE 0

RECURSIVE Gcd(_, _)
Gcd(a, b) == IF b = 0 THEN a ELSE Gcd(b, a % b)

\* the number n/d for any integers n, d (d = 0 gives inf or NaN)
Frac(n, d) ==
    IF d = 0 THEN <<Sign(n), 0>>
    ELSE LET g == Gcd(Abs(n), Abs(d))
             s == Sign(d)
         IN <<(s * n) \div g, (s * d) \div g>>

R(i) == <<i, 1>>
IsNaN(a) == a = NaN
IsFinite(a) == a[2] > 0
IsZero(a) == a[2] > 0 /\ a[1] = 0

FNeg(a) == <<-a[1], a[2]>>
FAbs(a) == <<Abs(a[1]), a[2]>>
FMul(a, b) == Frac(a[1] * b[1], a[2] * b[2])
FDiv(a, b) ==
    IF IsNaN(a) \/ IsNaN(b) THEN NaN
    ELSE IF a[2] = 0 /\ b[2] = 0 THEN NaN
    ELSE IF b[2] = 0 THEN R(0)
    ELSE IF b[1] = 0 THEN <<Sign(a[1]), 0>>
    ELSE Frac(a[1] * b[2], a[2] * b[1])
FAdd(a, b) ==
    IF IsNaN(a) \/ IsNaN(b) THEN NaN
    ELSE IF a[2] = 0 /\ b[2] = 0 THEN (IF a = b THEN a ELSE NaN)
    ELSE IF a[2] = 0 THEN a
    ELSE IF b[2] = 0 THEN b
    ELSE Frac(a[1] * b[2] + b[1] * a[2], a[2] * b[2])
FSub(a, b) == FAdd(a, FNeg(b))

\* comparisons: every comparison with NaN is false
FLt(a, b) ==
    IF IsNaN(a) \/ IsNaN(b) THEN FALSE
    ELSE IF a[2] = 0 /\ b[2] = 0 THEN a[1] < b[1]
    ELSE a[1] * b[2] < b[1] * a[2]
FGt(a, b) == FLt(b, a)
FLe(a, b) == ~IsNaN(a) /\ ~IsNaN(b) /\ ~FLt(b, a)
FGe(a, b) == FLe(b, a)

\* torch.max / torch.min of two elements: NaN propagates
FMax2(a, b) == IF IsNaN(a) \/ IsNaN(b) THEN NaN ELSE IF FLt(a, b) THEN b ELSE a
FMin2(a, b) == IF IsNaN(a) \/ IsNaN(b) THEN NaN ELSE IF FLt(b, a) THEN b ELSE a

\* torch.round: to the nearest integer, halves to the even neighbour
FRound(a) ==
    IF a[2] = 0 THEN a
    ELSE LET fl == a[1] \div a[2]
             rem == a[1] % a[2]
         IN IF 2 * rem < a[2] THEN R(fl)
            ELSE IF 2 * rem > a[2] THEN R(fl + 1)
            ELSE IF fl % 2 = 0 THEN R(fl) ELSE R(fl + 1)

RECURSIVE Pow2(_)
Pow2(k) == IF k = 0 THEN 1 ELSE 2 * Pow2(k - 1)

\* ------------------------------------------------------------- tensors
\* A tensor is [shape, data]: data is the row-major flattening.
RECURSIVE Prod(_)
Prod(s) == IF s = <<>> THEN 1 ELSE s[1] * Prod(Tail(s))

Tensor(s, d) == [shape |-> s, data |-> d]
Ndim(t) == Len(t.shape)
Nelement(t) == Len(t.data)
Idx(t) == 1..Len(t.data)

RECURSIVE SumSeq(_)
SumSeq(d) == IF d = <<>> THEN R(0) ELSE FAdd(d[1], SumSeq(Tail(d)))
RECURSIVE MaxSeq(_)
MaxSeq(d) == IF Len(d) = 1 THEN d[1] ELSE FMax2(d[1], MaxSeq(Tail(d)))

\* the elements of data at the flat positions of the group of position i,
\* for contiguous groups of glen elements
GroupOf(d, glen, i) ==
    LET g == (i - 1) \div glen
    IN [j \in 1..glen |-> d[g * glen + j]]

\* ---------------------------------------------------------- SymQuantizer
Clamp(x, clip_val) == FMin2(FMax2(x, clip_val[1]), clip_val[2])

AbsData(t) == [j \in Idx(t) |-> FAbs(t.data[j])]

\* number of trailing elements that share one scale when not layerwise:
\* the last axis, or the two last axes of a 4-D tensor
SymGroupLen(t) ==
    IF Ndim(t) <= MaxRowRank THEN t.shape[Ndim(t)]
    ELSE t.shape[3] * t.shape[4]

\* max_input, expanded to the shape of the tensor
SymMaxInput(t, layerwise) ==
    IF layerwise
    THEN LET m == MaxSeq(AbsData(t)) IN [i \in Idx(t) |-> m]
    ELSE [i \in Idx(t) |-> MaxSeq(GroupOf(AbsData(t), SymGroupLen(t), i))]

\* variant: the full range 2^num_bits - 1 instead of the signed one
SymScaleFullRange(num_bits, max_input) == FDiv(R(Pow2(num_bits) - 1), max_input)
SymScale(num_bits, max_input) == FDiv(R(Pow2(num_bits - 1) - 1), max_input)

SymQuantize(x, s) == FDiv(FRound(FMul(x, s)), s)

\* variant: the rank test off by one
SymRaisesOffByOne(input, layerwise) == ~layerwise /\ Ndim(input) > MaxSupportedRank + 1
SymRaises(input, layerwise) == ~layerwise /\ Ndim(input) > MaxSupportedRank

\* SymQuantizer.forward: [raised, ctx, ret]
SymForward(input, clip_val, num_bits, layerwise) ==
    LET clamped == Tensor(input.shape, [i \in Idx(input) |-> Clamp(input.data[i], clip_val)])
        max_input == SymMaxInput(clamped, layerwise)
    IN IF SymRaises(input, layerwise)
       THEN [raised |-> "ValueError", ctx |-> <<input, clip_val>>, ret |-> <<>>]
       ELSE [raised |-> "none", ctx |-> <<input, clip_val>>,
             ret |-> Tensor(input.shape,
                        [i \in Idx(input) |->
                            SymQuantize(clamped.data[i],
                                        SymScale(num_bits, max_input[i]))])]

\* variant: gt / lt instead of ge / le
SymGradElemStrict(x, clip_val, g) ==
    IF FGt(x, clip_val[2]) \/ FLt(x, clip_val[1]) THEN 0 ELSE g

\* the straight-through mask of one element
SymGradElem(x, clip_val, g) ==
    IF FGe(x, clip_val[2]) \/ FLe(x, clip_val[1]) THEN 0 ELSE g

\* SymQuantizer.backward: (grad_input, None, None, None)
SymBackward(saved, grad_output) ==
    <<[i \in 1..Len(grad_output) |->
          SymGradElem(saved[1].data[i], saved[2], grad_output[i])],
      "None", "None", "None">>

\* ---------------------------------------------------------- TwnQuantizer
TwnClamp(x, clip_val) ==
    LET y == IF FLt(x, clip_val[2]) THEN x ELSE clip_val[2]
    IN IF FGt(y, clip_val[1]) THEN y ELSE clip_val[1]

Ind(b) == IF b THEN R(1) ELSE R(0)

\* m: L1 norm of the group divided by its element count
TwnMean(g) == FDiv(SumSeq([j \in 1..Len(g) |-> FAbs(g[j])]), R(Len(g)))
\* variant: the threshold without its 0.7 factor
TwnThresNoScale(g) == TwnMean(g)
TwnThres(g) == FMul(Frac(ThresNum, ThresDen), TwnMean(g))
TwnMask(g, thres) == [j \in 1..Len(g) |-> Ind(FGt(FAbs(g[j]), thres))]
\* the divisor of alpha
TwnCount(g, thres) == SumSeq(TwnMask(g, thres))
\* variant: the masked sum divided by the element count of the group
TwnAlphaMeanAll(g, thres) ==
    LET mask == TwnMask(g, thres)
    IN FDiv(SumSeq([j \in 1..Len(g) |-> FAbs(FMul(mask[j], g[j]))]), R(Len(g)))
TwnAlpha(g, thres) ==
    LET mask == TwnMask(g, thres)
    IN FDiv(SumSeq([j \in 1..Len(g) |-> FAbs(FMul(mask[j], g[j]))]), SumSeq(mask))
\* alpha * pos - alpha * neg
TwnElem(x, thres, alpha) ==
    FSub(FMul(alpha, Ind(FGt(x, thres))), FMul(alpha, Ind(FLt(x, FNeg(thres)))))

\* the group of position i: the whole tensor, or its row in a 2-D tensor
TwnGroup(t, layerwise, i) ==
    IF layerwise THEN t.data ELSE GroupOf(t.data, t.shape[2], i)

\* TwnQuantizer.forward: [raised, ctx, ret]
TwnForward(input, clip_val, num_bits, layerwise) ==
    LET clamped == Tensor(input.shape, [i \in Idx(input) |-> TwnClamp(input.data[i], clip_val)])
        thresL == TwnThres(clamped.data)
        alphaL == TwnAlpha(clamped.data, thresL)
        Row(i) == GroupOf(clamped.data, clamped.shape[2], i)
    IN [raised |-> "none", ctx |-> <<input, clip_val>>,
        ret |-> Tensor(input.shape,
                   IF layerwise
                   THEN [i \in Idx(input) |-> TwnElem(clamped.data[i], thresL, alphaL)]
                   ELSE [i \in Idx(input) |->
                            TwnElem(clamped.data[i], TwnThres(Row(i)),
                                    TwnAlpha(Row(i), TwnThres(Row(i))))])]

\* variant: the mask of the lower bound left out
TwnGradElemNoLow(x, clip_val, g) ==
    IF FGe(x, clip_val[2]) THEN 0 ELSE g

TwnGradElem(x, clip_val, g) ==
    IF FGe(x, clip_val[2]) \/ FLe(x, clip_val[1]) THEN 0 ELSE g

\* TwnQuantizer.backward: (grad_input, None, None, None)
TwnBackward(saved, grad_output) ==
    <<[i \in 1..Len(grad_output) |->
          TwnGradElem(saved[1].data[i], saved[2], grad_output[i])],
      "None", "None", "None">>

\* ------------------------------------------------------------ call inputs
Vals == {R(v) : v \in -MaxAbs..MaxAbs}
\* clip ranges <<low, high>> with low < 0 < high
Clips == {<<R(-lo), R(hi)>> : lo \in 1..MaxAbs, hi \in 1..MaxAbs}
Bits == 1..MaxBits
\* incoming gradients: nonzero, different at every position
GradOutputs(n) ==
    {[i \in 1..n |-> g * i] : g \in (-MaxGrad..MaxGrad) \ {0}}

TensorsOf(shapes, vals) ==
    UNION {{Tensor(s, d) : d \in [1..Prod(s) -> vals]} : s \in shapes}

ShapesOfRank(k) == {s \in [1..k -> 1..MaxLen] : Prod(s) <= MaxLen}
\* 1-D tensors, 2-D tensors, and tensors of every rank up to one past the
\* largest supported one
FlatInputs == TensorsOf(ShapesOfRank(1), Vals)
MatrixInputs == TensorsOf(ShapesOfRank(2), Vals)
RankVals == {R(-MaxAbs), R(0), R(1)}
RankInputs ==
    TensorsOf(UNION {ShapesOfRank(k) : k \in 1..(MaxSupportedRank + 1)}, RankVals)

\* ----------------------------------------------------------------- state
VARIABLES
    fn,       \* the autograd Function in use: "none", "Sym" or "Twn"
    method,   \* the static method that ran last: "none", "forward", "backward"
    args,     \* its arguments other than ctx and the input tensor
    ctx,      \* ctx.saved_tensors: <<input, clip_val>> once forward has run
    ret,      \* what it returned
    raised,   \* "none" or the exception it raised
    chain,    \* how many forward calls fed each other's output
    layer,    \* the attributes a layer's constructor set
    weight,   \* the layer's full-precision weight parameter
    out,      \* what the layer's last forward did
    lop       \* the last operation on the layer: "init", "forward", "step"

qvars == <<fn, method, args, ctx, ret, raised, chain>>
lvars == <<layer, weight, out, lop>>
vars == <<fn, method, args, ctx, ret, raised, chain, layer, weight, out, lop>>

NoLayer == [cls |-> "none"]
NoOut == [raised |-> "none", prim |-> "none"]

Init ==
    /\ fn = "none"
    /\ method = "none"
    /\ args = <<>>
    /\ ctx = <<>>
    /\ ret = <<>>
    /\ raised = "none"
    /\ chain = 0
    /\ layer = NoLayer
    /\ weight = <<>>
    /\ out = NoOut
    /\ lop = "init"

Apply(f, result, num_bits, layerwise) ==
    \E r \in {result} :
        /\ fn' = f
        /\ method' = "forward"
        /\ args' = [num_bits |-> num_bits, layerwise |-> layerwise]
        /\ ctx' = r.ctx
        /\ ret' = r.ret
        /\ raised' = r.raised

\* SymQuantizer.apply(input, clip_val, num_bits, layerwise)
SymCall(inputs, modes) ==
    /\ method = "none"
    /\ \E input \in inputs, clip_val \in Clips, num_bits \in Bits, layerwise \in modes :
          Apply("Sym", SymForward(input, clip_val, num_bits, layerwise), num_bits, layerwise)
    /\ chain' = 1
    /\ UNCHANGED lvars

\* TwnQuantizer.apply(input, clip_val, num_bits, layerwise); the layers pass
\* num_bits = 2, and forward never reads it
TwnCall ==
    /\ method = "none"
    /\ \E layerwise \in BOOLEAN :
         \E input \in (IF layerwise THEN FlatInputs ELSE MatrixInputs), clip_val \in Clips :
            Apply("Twn", TwnForward(input, clip_val, TernaryBits, layerwise),
                  TernaryBits, layerwise)
    /\ chain' = 1
    /\ UNCHANGED lvars

\* TwnQuantizer.apply on the tensor the previous call returned, with the
\* same clip range and mode
TwnReapply ==
    /\ fn = "Twn"
    /\ method = "forward"
    /\ chain = 1
    /\ Apply("Twn", TwnForward(ret, ctx[2], args.num_bits, args.layerwise),
             args.num_bits, args.layerwise)
    /\ chain' = 2
    /\ UNCHANGED lvars

\* the engine calls backward with the gradient of the returned tensor
Backward ==
    /\ method = "forward"
    /\ raised = "none"
    /\ chain = 1
    /\ \E g \in GradOutputs(Nelement(ctx[1])) :
          /\ args' = [grad_output |-> g]
          /\ ret' = IF fn = "Sym" THEN SymBackward(ctx, g) ELSE TwnBackward(ctx, g)
    /\ method' = "backward"
    /\ UNCHANGED <<fn, ctx, raised, chain>>
    /\ UNCHANGED lvars

Next ==
    \/ SymCall(FlatInputs, {TRUE})
    \/ TwnCall
    \/ TwnReapply
    \/ Backward

Spec == Init /\ [][Next]_vars

\* the symmetric quantiser on tensors of every rank, in both modes
RankNext ==
    \/ SymCall(RankInputs, BOOLEAN)
    \/ Backward

RankSpec == Init /\ [][RankNext]_vars

\* --------------------------------------------------------------- layers
\* The attributes __init__ sets.  act_quantizer, input_bits and act_clip_val
\* exist only if quantize_act; attrs lists the attributes that exist.
ClipBuffer(clip_val) == <<R(-clip_val), R(clip_val)>>
WeightQuantizerFor(weight_bits) == IF weight_bits = TernaryBits THEN "Twn" ELSE "Sym"
ActAttrs(quantize_act) ==
    IF quantize_act THEN {"input_bits", "act_quantizer", "act_clip_val"} ELSE {}

QuantizeLinearInit(bias, quantize_act, input_bits, weight_bits, clip_val) ==
    [cls |-> "Linear", bias |-> bias, quantize_act |-> quantize_act,
     weight_bits |-> weight_bits, weight_quantizer |-> WeightQuantizerFor(weight_bits),
     weight_clip_val |-> ClipBuffer(clip_val),
     input_bits |-> input_bits, act_clip_val |-> ClipBuffer(clip_val),
     attrs |-> {"quantize_act", "weight_bits", "weight_quantizer", "weight_clip_val"}
               \cup ActAttrs(quantize_act)]

QuantizeEmbeddingInit(weight_bits, clip_val) ==
    [cls |-> "Embedding", layerwise |-> FALSE,
     weight_bits |-> weight_bits, weight_quantizer |-> WeightQuantizerFor(weight_bits),
     weight_clip_val |-> ClipBuffer(clip_val),
     attrs |-> {"weight_bits", "layerwise", "weight_quantizer", "weight_clip_val"}]

QuantizeConvInit(bias, quantize_act, input_bits, weight_bits, clip_val) ==
    [cls |-> "Conv", bias |-> bias, quantize_act |-> quantize_act,
     weight_bits |-> weight_bits, weight_quantizer |-> WeightQuantizerFor(weight_bits),
     weight_clip_val |-> ClipBuffer(clip_val),
     input_bits |-> input_bits, act_clip_val |-> ClipBuffer(clip_val),
     attrs |-> {"quantize_act", "weight_bits", "weight_quantizer", "weight_clip_val"}
               \cup ActAttrs(quantize_act)]

\* self.weight_quantizer.apply(self.weight, self.weight_clip_val, self.weight_bits, layerwise)
WeightQuantizerApply(self, w, layerwise) ==
    IF self.weight_quantizer = "Twn"
    THEN TwnForward(w, self.weight_clip_val, self.weight_bits, layerwise).ret
    ELSE SymForward(w, self.weight_clip_val, self.weight_bits, layerwise).ret

\* self.act_quantizer.apply(input, self.act_clip_val, self.input_bits, True)
ActQuantizerApply(self, input) ==
    SymForward(input, self.act_clip_val, self.input_bits, TRUE).ret

\* What a forward call did: the exception it raised or the primitive it
\* delegated to, with the tensors it passed; qweight is the local `weight`.
Raise(exc, qweight) ==
    [raised |-> exc, prim |-> "none", qweight |-> qweight, act_quantized |-> FALSE]
Delegate(prim, input, qweight, bias, act_quantized) ==
    [raised |-> "none", prim |-> prim, input |-> input, qweight |-> qweight,
     bias |-> bias, act_quantized |-> act_quantized]

\* variant: the quantised weight written back into self.weight
DenseForwardInPlace(prim, self, w, input) ==
    LET qweight == WeightQuantizerApply(self, w, TRUE)
    IN [self |-> self, weight |-> qweight,
        out |-> IF "act_quantizer" \notin self.attrs
                THEN Raise("AttributeError", qweight)
                ELSE Delegate(prim, ActQuantizerApply(self, input), qweight,
                              self.bias, TRUE)]

\* QuantizeLinear.forward / QuantizeConv.forward: [self, weight, out], the
\* attributes and the stored weight after the call and what the call did
DenseForward(prim, self, w, input) ==
    LET qweight == WeightQuantizerApply(self, w, TRUE)
    IN [self |-> self, weight |-> w,
        out |-> IF "act_quantizer" \notin self.attrs
                THEN Raise("AttributeError", qweight)
                ELSE Delegate(prim, ActQuantizerApply(self, input), qweight,
                              self.bias, TRUE)]

QuantizeLinearForward(self, w, input) == DenseForward("linear", self, w, input)
QuantizeConvForward(self, w, input) == DenseForward("conv1d", self, w, input)

\* QuantizeEmbedding.forward
QuantizeEmbeddingForward(self, w, input) ==
    LET qweight == WeightQuantizerApply(self, w, self.layerwise)
    IN [self |-> self, weight |-> w,
        out |-> Delegate("embedding", input, qweight, <<>>, FALSE)]

\* the geometry of the layers: Linear(in 2, out 1), Embedding(2 rows of 1),
\* Conv(in 1, out 1, kernel 2)
WeightShape(cls) ==
    IF cls = "Linear" THEN <<1, 2>>
    ELSE IF cls = "Embedding" THEN <<2, 1>>
    ELSE <<1, 1, 2>>
\* bias=False, or a bias of one output feature
Biases == {<<>>, <<Tensor(<<1>>, <<R(1)>>)>>}
ActVals == {R(0), R(MaxAbs)}
LayerInputs(cls) ==
    IF cls = "Linear" THEN TensorsOf({<<1, 2>>}, ActVals)
    ELSE IF cls = "Embedding" THEN TensorsOf({<<1>>}, {0, 1})
    ELSE TensorsOf({<<1, 1, 2>>}, ActVals)

ClipVals == {1, MaxAbs}
Layers ==
    {QuantizeLinearInit(b, qa, DefaultInputBits, wb, c) :
        b \in Biases, qa \in BOOLEAN, wb \in Bits, c \in ClipVals}
    \cup {QuantizeEmbeddingInit(wb, c) : wb \in Bits, c \in ClipVals}
    \cup {QuantizeConvInit(b, qa, DefaultInputBits, wb, c) :
        b \in Biases, qa \in BOOLEAN, wb \in Bits, c \in ClipVals}

\* a constructed layer; its weight initialisation is arbitrary
LayerInit ==
    /\ fn = "none"
    /\ method = "none"
    /\ args = <<>>
    /\ ctx = <<>>
    /\ ret = <<>>
    /\ raised = "none"
    /\ chain = 0
    /\ layer \in Layers
    /\ weight \in TensorsOf({WeightShape(layer.cls)}, Vals)
    /\ out = NoOut
    /\ lop = "init"

LayerCall(self, w, input) ==
    IF self.cls = "Linear" THEN QuantizeLinearForward(self, w, input)
    ELSE IF self.cls = "Embedding" THEN QuantizeEmbeddingForward(self, w, input)
    ELSE QuantizeConvForward(self, w, input)

\* layer(input)
Forward ==
    /\ \E input \in LayerInputs(layer.cls) :
         \E r \in {LayerCall(layer, weight, input)} :
            /\ layer' = r.self
            /\ weight' = r.weight
            /\ out' = r.out
    /\ lop' = "forward"
    /\ UNCHANGED qvars

\* the optimizer moves one element of the weight by one unit; the output of
\* the forward call before it has been consumed
OptimizerStep ==
    /\ \E i \in Idx(weight), delta \in {-1, 1} :
          /\ Abs(weight.data[i][1] + delta) <= MaxAbs
          /\ weight' = Tensor(weight.shape,
                              [weight.data EXCEPT ![i] = R(weight.data[i][1] + delta)])
    /\ out' = NoOut
    /\ lop' = "step"
    /\ UNCHANGED layer
    /\ UNCHANGED qvars

LayerNext ==
    \/ Forward
    \/ OptimizerStep

LayerSpec == LayerInit /\ [][LayerNext]_vars

\* ================================================================ claims
SavedInput == ctx[1].data
Low == ctx[2][1]
High == ctx[2][2]
Forwarded(f) == fn = f /\ method = "forward" /\ raised = "none" /\ chain = 1
AllZero(d) == \A i \in 1..Len(d) : d[i] = R(0)
HasNaN(d) == \E i \in 1..Len(d) : IsNaN(d[i])

\* C1: both backward methods return the incoming gradient at every position,
\* except exactly zero where the saved pre-clamp input is >= high or <= low,
\* and None for clip_val, num_bits and layerwise.
C1_BackwardMask ==
    method = "backward" =>
        /\ Len(ret) = 4
        /\ ret[2] = "None" /\ ret[3] = "None" /\ ret[4] = "None"
        /\ Len(ret[1]) = Len(SavedInput)
        /\ \A i \in 1..Len(SavedInput) :
              ret[1][i] = IF FGe(SavedInput[i], High) \/ FLe(SavedInput[i], Low)
                          THEN 0 ELSE args.grad_output[i]

C1_Witness ==
    /\ method = "backward"
    /\ fn = "Twn"
    /\ \E i, j \in 1..Len(SavedInput) :
          /\ FLe(SavedInput[i], Low) /\ ret[1][i] = 0
          /\ ret[1][j] # 0 /\ ret[1][j] = args.grad_output[j]

\* C2: symmetric forward, layerwise, clamped maximum M nonzero, q = 2^(b-1)-1,
\* s = q / M: every output element is a number k/s with k an integer,
\* |k| <= q, no grid point is nearer to the clamped element, and it equals
\* round(clamped * s) / s.  MinBits is the least bit width covered.
C2Grid(MinBits) ==
    (Forwarded("Sym") /\ args.layerwise /\ args.num_bits >= MinBits) =>
        LET c == [i \in 1..Len(SavedInput) |-> Clamp(SavedInput[i], ctx[2])]
            M == MaxSeq([i \in 1..Len(c) |-> FAbs(c[i])])
            q == Pow2(args.num_bits - 1) - 1
            s == FDiv(R(q), M)
        IN ~IsZero(M) =>
              \A i \in 1..Len(c) :
                 LET y == ret.data[i] IN
                 /\ IsFinite(y)
                 /\ \E k \in -q..q : FMul(y, s) = R(k)
                 /\ \A k \in -q..q :
                       FLe(FAbs(FSub(y, c[i])), FAbs(FSub(FDiv(R(k), s), c[i])))
                 /\ y = FDiv(FRound(FMul(c[i], s)), s)

\* C2 as stated: for every bit width b >= 1.
C2_GridEveryBitWidth == C2Grid(1)

\* C2 amended: for every bit width b >= 2.
C2_GridFromTwoBits == C2Grid(2)

C2_Witness ==
    /\ Forwarded("Sym") /\ args.layerwise /\ args.num_bits >= 2
    /\ \E i \in 1..Len(SavedInput) :
          LET c == [j \in 1..Len(SavedInput) |-> Clamp(SavedInput[j], ctx[2])]
              M == MaxSeq([j \in 1..Len(c) |-> FAbs(c[j])])
              s == FDiv(R(Pow2(args.num_bits - 1) - 1), M)
          IN /\ ~IsZero(M)
             /\ FMul(c[i], s)[2] = 2
             /\ ret.data[i] # c[i]

\* C3: ternary forward, layerwise: with thres = 0.7 * mean|clamped| and alpha
\* the mean magnitude of the clamped elements above thres, alpha is a number
\* >= 0 and every output element is +alpha, -alpha or 0 by its clamped value.
C3_ThreeValues ==
    (Forwarded("Twn") /\ args.layerwise) =>
        LET c == [i \in 1..Len(SavedInput) |-> TwnClamp(SavedInput[i], ctx[2])]
            n == Len(c)
            thres == FMul(Frac(7, 10), FDiv(SumSeq([i \in 1..n |-> FAbs(c[i])]), R(n)))
            big == {i \in 1..n : FGt(FAbs(c[i]), thres)}
            alpha == FDiv(SumSeq([i \in 1..n |-> IF i \in big THEN FAbs(c[i]) ELSE R(0)]),
                          R(Cardinality(big)))
        IN /\ IsFinite(alpha) /\ FGe(alpha, R(0))
           /\ \A i \in 1..n :
                 ret.data[i] = IF FGt(c[i], thres) THEN alpha
                               ELSE IF FLt(c[i], FNeg(thres)) THEN FNeg(alpha)
                               ELSE R(0)

\* C4: an all-zero input to either forward gives an all-zero output and
\* raises nothing (stated for the bit widths b >= 2, where the numerator
\* 2^(b-1) - 1 of the symmetric scale is not zero).
C4_ZeroInZeroOut ==
    (method = "forward" /\ chain = 1 /\ args.num_bits >= 2 /\ AllZero(SavedInput)) =>
        /\ raised = "none"
        /\ AllZero(ret.data)

\* C5 as stated: symmetric forward on a tensor of more than 4 dimensions
\* raises the unsupported-dimensionality error in either mode.
C5_RaisesInEitherMode ==
    (fn = "Sym" /\ method = "forward" /\ Ndim(ctx[1]) > 4) =>
        raised = "ValueError"

\* C5 amended: on a tensor of more than 4 dimensions symmetric forward raises
\* the error and returns nothing when layerwise is false, and raises nothing
\* and returns a tensor of the input's shape when layerwise is true.
C5_RaisesUnlessLayerwise ==
    (fn = "Sym" /\ method = "forward" /\ Ndim(ctx[1]) > 4) =>
        IF args.layerwise
        THEN raised = "none" /\ ret.shape = ctx[1].shape
        ELSE raised = "ValueError" /\ ret = <<>>

C5_Witness ==
    /\ fn = "Sym" /\ method = "forward"
    /\ Ndim(ctx[1]) = 5
    /\ ~args.layerwise
    /\ raised = "ValueError"

\* C6: in QuantizeLinear / QuantizeConv the activation is quantised iff the
\* layer was built with quantize_act = True; with quantize_act = False the
\* call raises nothing and delegates to the primitive with the unquantised
\* input and the quantised weight.
C6_ActQuantIffFlag ==
    (lop = "forward" /\ layer.cls \in {"Linear", "Conv"}) =>
        /\ out.act_quantized <=> layer.quantize_act
        /\ ~layer.quantize_act =>
              /\ out.raised = "none"
              /\ out.prim = (IF layer.cls = "Linear" THEN "linear" ELSE "conv1d")
              /\ out.qweight = WeightQuantizerApply(layer, weight, TRUE)

\* C7 as stated: ternary forward, layerwise, any clip range low < high:
\* the second application returns what the first returned (stated for the
\* inputs whose first result holds no NaN, so that a violation does not rest
\* on the division by zero of C4).
C7_Idempotent ==
    (fn = "Twn" /\ method = "forward" /\ chain = 2 /\ args.layerwise
        /\ ~HasNaN(SavedInput)) =>
        ret.data = SavedInput

\* C7 amended: for a clip range [-c, c], the second application returns what
\* the first returned when that holds no NaN, and c at every position when
\* the first returned NaN (the clamped input was all zero).
C7_IdempotentSymmetricClip ==
    (fn = "Twn" /\ method = "forward" /\ chain = 2 /\ args.layerwise
        /\ Low = FNeg(High)) =>
        IF HasNaN(SavedInput)
        THEN \A i \in 1..Len(SavedInput) : IsNaN(SavedInput[i]) /\ ret.data[i] = High
        ELSE ret.data = SavedInput

C7_Witness ==
    /\ fn = "Twn" /\ method = "forward" /\ chain = 2 /\ args.layerwise
    /\ Low = FNeg(High)
    /\ ~HasNaN(SavedInput)
    /\ \E j \in 1..Len(SavedInput) : SavedInput[j][2] > 1
    /\ ret.data = SavedInput

\* C8 as stated: symmetric backward passes the gradient for low <= x <= high
\* and zeroes it for x < low or x > high.
C8_ClosedInterval ==
    (fn = "Sym" /\ method = "backward") =>
        \A i \in 1..Len(SavedInput) :
           /\ (FLe(Low, SavedInput[i]) /\ FLe(SavedInput[i], High))
                 => ret[1][i] = args.grad_output[i]
           /\ (FLt(SavedInput[i], Low) \/ FGt(SavedInput[i], High))
                 => ret[1][i] = 0

\* C8 amended: symmetric backward passes the gradient for low < x < high and
\* zeroes it for x <= low or x >= high (the bounds themselves are zeroed).
C8_OpenInterval ==
    (fn = "Sym" /\ method = "backward") =>
        \A i \in 1..Len(SavedInput) :
           /\ (FLt(Low, SavedInput[i]) /\ FLt(SavedInput[i], High))
                 => ret[1][i] = args.grad_output[i]
           /\ (FLe(SavedInput[i], Low) \/ FGe(SavedInput[i], High))
                 => ret[1][i] = 0

C8_Witness ==
    /\ fn = "Sym" /\ method = "backward"
    /\ \E i, j \in 1..Len(SavedInput) :
          /\ SavedInput[i] = High
          /\ args.grad_output[i] # 0 /\ ret[1][i] = 0
          /\ FLt(Low, SavedInput[j]) /\ FLt(SavedInput[j], High)
          /\ ret[1][j] # 0

\* C9: a forward call of a layer leaves the stored weight, the bias and the
\* clip-range buffers as they were, and the quantised weight it uses is the
\* quantisation of the weight stored at the time of the call.
C9_ForwardFrame ==
    [][lop' = "forward" =>
          /\ weight' = weight
          /\ layer' = layer
          /\ out'.qweight =
                WeightQuantizerApply(layer, weight,
                    IF layer.cls = "Embedding" THEN layer.layerwise ELSE TRUE)]_vars

C9_Witness ==
    /\ lop = "forward"
    /\ out.raised = "none"
    /\ out.qweight.data # weight.data
    /\ ~HasNaN(out.qweight.data)

\* C10: in ternary forward the divisor of alpha (the count of clamped
\* elements of a group above thres) is zero iff the group is all zero; a
\* group with a nonzero element has a finite alpha > 0, returned at its
\* largest element, and an all-zero group returns NaN.
C10Groups ==
    LET c == Tensor(ctx[1].shape, [i \in Idx(ctx[1]) |-> TwnClamp(SavedInput[i], ctx[2])])
    IN {<<TwnGroup(c, args.layerwise, i), TwnGroup(ret, args.layerwise, i)>> : i \in Idx(c)}

====
